---- MODULE Spec2Model ----
(***************************************************************************)
(* The JSON document store, the upload directory and the role-gated        *)
(* portals of bom.py.                                                      *)
(*                                                                         *)
(* doc is the content of sample_data.json, blobs the set of file names     *)
(* present in data/uploads, session the st.session_state of one browser    *)
(* session.  Every button handler of the script is one action; a handler   *)
(* that is cut short (an exception out of open() or json.dump, the process *)
(* being killed) is the same action taken with fewer of its effects, and   *)
(* sets interrupted.                                                       *)
(***************************************************************************)
EXTENDS Integers, Sequences, FiniteSets, TLC

VARIABLES
    doc,          \* the persisted document (sample_data.json)
    blobs,        \* names of the files present in UPLOAD_DIR
    session,      \* <<>> when logged out, <<user>> when st.session_state['user'] is set
    nextKey,      \* the uuid4 draws made so far, plus one (a draw is never repeated)
    clock,        \* what datetime.utcnow() returns next; every reading is later than the one before
    interrupted,  \* history: some handler was cut short
    last,         \* history: the store operation that ran last
    removedIds,   \* history: the upload ids removed so far
    creation,     \* history: upload id -> the session role and final flag it was created with
    callers       \* the callers of add_upload and save_message that run side by side

vars == <<doc, blobs, session, nextKey, clock, interrupted, last, removedIds, creation, callers>>

----------------------------------------------------------------------------
(* Bounds *)

MaxKeys == 3         \* uuid4 draws in a run of the registry functions
MaxPortalKeys == 2   \* uuid4 draws in a run of the portals

----------------------------------------------------------------------------
(* Values *)

NoneStr == "<None>"

Roles == {"member", "team_lead", "project_lead", "admin", "superadmin"}

Files == {"a.csv", "b.xlsx"}

\* the file picked in a portal's file_uploader
PortalFiles == {"a.csv"}

DisplayNames == <<"Project 1", "Project 2">>

\* two script runs (two browser sessions) served at the same time
Callers == {1, 2}

NoDoc == [users |-> <<>>, projects |-> <<>>, uploads |-> <<>>, messages |-> <<>>,
          dashboards |-> <<>>]

NoRequest == [op |-> "none", project_id |-> 0, team |-> "", by |-> "", file |-> ""]

\* a caller that is in neither function
IdleCaller == [pc |-> "idle", req |-> NoRequest, d |-> NoDoc, key |-> 0,
               rank |-> 0, raced |-> FALSE]

SeedProjects ==
    << [id |-> 10, name |-> "Orbiter", teams |-> <<"Design", "Tooling">>],
       [id |-> 20, name |-> "Lander",  teams |-> <<"Tooling">>] >>

SeedUsers ==
    << [id |-> 1, name |-> "ann", role |-> "member",       team |-> "Design",  pin |-> "1111"],
       [id |-> 2, name |-> "bob", role |-> "team_lead",    team |-> "Design",  pin |-> "1111"],
       [id |-> 4, name |-> "dan", role |-> "project_lead", team |-> "Design",  pin |-> "1111"],
       [id |-> 5, name |-> "eve", role |-> "admin",        team |-> NoneStr,   pin |-> "1111"],
       [id |-> 6, name |-> "sam", role |-> "superadmin",   team |-> NoneStr,   pin |-> "1111"] >>

TypedNames == {"ann", " ann", "Bob", "dan", "EVE", "sam", "zed"}

TypedPins == {"1111", "1111 ", "0000", "2222"}

Range(s) == {s[i] : i \in 1..Len(s)}

\* str.lower() on the names that occur
Lower(s) ==
    CASE s = "Bob" -> "bob"
      [] s = "EVE" -> "eve"
      [] OTHER -> s

\* str.strip() on the texts that occur
Strip(s) ==
    CASE s = " ann" -> "ann"
      [] s = "1111 " -> "1111"
      [] s = " " -> ""
      [] OTHER -> s

\* Python truthiness of user.get("team")
Falsy(t) == t = NoneStr \/ t = ""

----------------------------------------------------------------------------
(* Data helpers *)

load_data == doc

find_user(name, role) ==
    LET d == load_data
        hits == {i \in 1..Len(d.users) :
                    Lower(d.users[i].name) = Lower(name) /\ d.users[i].role = role}
    IN  IF hits = {} THEN <<>>
        ELSE <<d.users[CHOOSE i \in hits : \A j \in hits : i <= j]>>

\* f"{uuid.uuid4().hex}_{file_obj.name}"
StorageKey(uuid, file) == [uuid |-> uuid, name |-> file]

MaxId(ups) ==
    IF Len(ups) = 0 THEN 0
    ELSE LET ids == {ups[i].id : i \in 1..Len(ups)}
         IN  CHOOSE m \in ids : \A k \in ids : k <= m

\* an allocator that hands out the smallest id not in use
NextIdFirstGap(ups) ==
    CHOOSE k \in 1..(Len(ups) + 1) :
        /\ \A i \in 1..Len(ups) : ups[i].id # k
        /\ \A j \in 1..(k - 1) : \E i \in 1..Len(ups) : ups[i].id = j

\* an allocator that counts the records
NextIdByCount(ups) == Len(ups) + 1

NextId(ups) == MaxId(ups) + 1

Ids(ups) == {ups[i].id : i \in 1..Len(ups)}

\* first record of the list with this id, 0 when there is none
FirstIndex(ups, upload_id) ==
    LET hits == {i \in 1..Len(ups) : ups[i].id = upload_id}
    IN  IF hits = {} THEN 0 ELSE CHOOSE i \in hits : \A j \in hits : i <= j

HasId(ups, upload_id) == FirstIndex(ups, upload_id) # 0

WithoutId(ups, upload_id) == SelectSeq(ups, LAMBDA u : u.id # upload_id)

----------------------------------------------------------------------------
(* Upload registry: add_upload, replace_upload, remove_upload.             *)
(* steps is the number of the function's effects on disk that took place:  *)
(* all of them when the call returns, fewer when it is cut short.          *)

AddSteps == 2          \* 1: the blob is written, 2: the document is saved
ReplaceSteps == 3      \* 1: the old blob is unlinked, 2: the new blob is written, 3: saved
RemoveSteps == 2       \* 1: the blob is unlinked, 2: the document is saved
FinalReplaceSteps == 4 \* replace_upload's three, 4: the re-flagged document is saved
FinalRemoveSteps == 2  \* 1: os.remove, 2: the document is saved

add_upload_entry(d, project_id, project_name, team, uploaded_by, file, final, uuid, ts) ==
    [ id            |-> NextId(d.uploads),
      project_id    |-> project_id,
      project_name  |-> project_name,
      team          |-> team,
      uploaded_by   |-> uploaded_by,
      filename      |-> StorageKey(uuid, file),
      original_name |-> file,
      ts            |-> ts,
      final         |-> final ]

add_upload_blobs(b, entry, steps) ==
    IF steps >= 1 THEN b \cup {entry.filename} ELSE b

add_upload_doc(d, entry, steps) ==
    IF steps >= AddSteps THEN [d EXCEPT !.uploads = Append(@, entry)] ELSE d

\* a replace that writes the record anew, with the default final flag
replace_upload_record_resets_final(u, file, uploaded_by, uuid, ts) ==
    [u EXCEPT !.filename = StorageKey(uuid, file),
              !.original_name = file,
              !.uploaded_by = uploaded_by,
              !.ts = ts,
              !.final = FALSE]

replace_upload_record(u, file, uploaded_by, uuid, ts) ==
    [u EXCEPT !.filename = StorageKey(uuid, file),
              !.original_name = file,
              !.uploaded_by = uploaded_by,
              !.ts = ts]

\* the new blob written before the record is looked up
replace_upload_blobs_write_first(b, d, upload_id, file, uuid, steps) ==
    LET i == FirstIndex(d.uploads, upload_id)
        b1 == IF steps >= 1 THEN b \cup {StorageKey(uuid, file)} ELSE b
    IN  IF i # 0 /\ steps >= 2 THEN b1 \ {d.uploads[i].filename} ELSE b1

\* the old blob unlinked after u["filename"] was updated: the new file is the one deleted
replace_upload_blobs_unlink_after(b, d, upload_id, file, uuid, steps) ==
    LET i == FirstIndex(d.uploads, upload_id)
    IN  IF i = 0 THEN b
        ELSE IF steps >= 2 THEN b \ {StorageKey(uuid, file)}
        ELSE IF steps >= 1 THEN b \cup {StorageKey(uuid, file)} ELSE b

replace_upload_blobs(b, d, upload_id, file, uuid, steps) ==
    LET i == FirstIndex(d.uploads, upload_id)
    IN  IF i = 0 THEN b
        ELSE LET b1 == IF steps >= 1 THEN b \ {d.uploads[i].filename} ELSE b
             IN  IF steps >= 2 THEN b1 \cup {StorageKey(uuid, file)} ELSE b1

replace_upload_doc(d, upload_id, file, uploaded_by, uuid, ts, steps) ==
    LET i == FirstIndex(d.uploads, upload_id)
    IN  IF i = 0 \/ steps < ReplaceSteps THEN d
        ELSE [d EXCEPT !.uploads[i] =
                  replace_upload_record(d.uploads[i], file, uploaded_by, uuid, ts)]

remove_upload_blobs(b, d, upload_id, steps) ==
    IF steps >= 1
    THEN b \ {d.uploads[i].filename : i \in {j \in 1..Len(d.uploads) : d.uploads[j].id = upload_id}}
    ELSE b

\* a remove that saves the document first and unlinks the blob after
remove_upload_doc_saves_first(d, upload_id, steps) ==
    IF steps >= 1 THEN [d EXCEPT !.uploads = WithoutId(@, upload_id)] ELSE d

remove_upload_doc(d, upload_id, steps) ==
    IF steps >= RemoveSteps THEN [d EXCEPT !.uploads = WithoutId(@, upload_id)] ELSE d

----------------------------------------------------------------------------
(* History bookkeeping shared by the store operations *)

\* creation, kept for the uploads of the document only
Created(c, d) == [k \in DOMAIN c \cap Ids(d.uploads) |-> c[k]]

Ran(op, id, res, complete) ==
    /\ last' = [op |-> op, id |-> id, res |-> IF complete THEN res ELSE "interrupted"]
    /\ interrupted' = (interrupted \/ ~complete)

DoAdd(op, role, project_id, project_name, team, uploaded_by, file, final, steps) ==
    LET d == load_data
        entry == add_upload_entry(d, project_id, project_name, team, uploaded_by,
                                  file, final, nextKey, clock)
    IN  /\ blobs' = add_upload_blobs(blobs, entry, steps)
        /\ doc' = add_upload_doc(d, entry, steps)
        /\ nextKey' = nextKey + 1
        /\ clock' = clock + 1
        /\ creation' = IF steps >= AddSteps
                       THEN (entry.id :> [role |-> role, final |-> final]) @@ creation
                       ELSE creation
        /\ Ran(op, entry.id, "ok", steps >= AddSteps)
        /\ UNCHANGED <<callers, session, removedIds>>

DoReplace(op, upload_id, file, uploaded_by, steps) ==
    LET d == load_data
        i == FirstIndex(d.uploads, upload_id)
    IN  /\ blobs' = replace_upload_blobs(blobs, d, upload_id, file, nextKey, steps)
        /\ doc' = replace_upload_doc(d, upload_id, file, uploaded_by, nextKey, clock, steps)
        /\ nextKey' = IF i # 0 THEN nextKey + 1 ELSE nextKey
        /\ clock' = IF i # 0 THEN clock + 1 ELSE clock
        /\ Ran(op, upload_id, IF i # 0 THEN "ok" ELSE "not_found",
               i = 0 \/ steps >= ReplaceSteps)
        /\ UNCHANGED <<callers, session, removedIds, creation>>

DoRemove(op, upload_id, steps) ==
    LET d == load_data
        i == FirstIndex(d.uploads, upload_id)
    IN  /\ blobs' = remove_upload_blobs(blobs, d, upload_id, steps)
        /\ doc' = remove_upload_doc(d, upload_id, steps)
        /\ removedIds' = IF i # 0 /\ steps >= RemoveSteps
                         THEN removedIds \cup {upload_id} ELSE removedIds
        /\ creation' = Created(creation, doc')
        /\ Ran(op, upload_id, IF i # 0 THEN "ok" ELSE "not_found", steps >= RemoveSteps)
        /\ UNCHANGED <<callers, session, nextKey, clock>>

----------------------------------------------------------------------------
(* The script run: session, project labels, navigation tabs *)

LoggedIn == session # <<>>

user == session[1]

Privileged == {"project_lead", "admin", "superadmin"}

\* project_display_map: project id -> f"Project {idx}", a later entry overriding
ProjectDisplay(d, project_id) ==
    LET hits == {i \in 1..Len(d.projects) : d.projects[i].id = project_id}
    IN  DisplayNames[CHOOSE i \in hits : \A j \in hits : j <= i]

TabsOf(role) ==
    {"Personal", "Central", "Analysis", "Messenger"}
        \cup (IF role \in Privileged THEN {"Final BOM"} ELSE {})
        \cup (IF role \in {"admin", "superadmin"} THEN {"Assigning", "Admin"} ELSE {})

\* projects whose teams include the user's team; all of them for a user without team
TeamProjects(d, usr) ==
    SelectSeq(d.projects, LAMBDA p : Falsy(usr.team) \/ usr.team \in Range(p.teams))

----------------------------------------------------------------------------
(* Personal portal *)

PersonalLists(d, usr, u) ==
    /\ "Personal" \in TabsOf(usr.role)
    /\ TeamProjects(d, usr) # <<>>
    /\ u.uploaded_by = usr.name

\* can_edit without its uploader clause
PersonalCanEditNoUploader(usr, u) ==
    \/ usr.role \in Privileged
    \/ usr.role = "team_lead" /\ usr.team = u.team

PersonalCanEdit(usr, u) ==
    \/ usr.role \in Privileged
    \/ usr.role = "team_lead" /\ usr.team = u.team
    \/ usr.name = u.uploaded_by

PersonalOffers(d, usr, u) == PersonalLists(d, usr, u) /\ PersonalCanEdit(usr, u)

----------------------------------------------------------------------------
(* Central portal *)

CentralProjects(d, usr) ==
    IF usr.role \in {"admin", "superadmin"} THEN d.projects ELSE TeamProjects(d, usr)

\* the upload is shown under the selected project, in the group of one of its teams
CentralLists(d, usr, u) ==
    /\ "Central" \in TabsOf(usr.role)
    /\ \E p \in Range(CentralProjects(d, usr)) :
          u.project_id = p.id /\ u.team \in Range(p.teams)

\* can_edit without the team comparison
CentralCanEditAnyLead(usr, team) ==
    \/ usr.role \in Privileged
    \/ usr.role = "team_lead"

CentralCanEdit(usr, team) ==
    \/ usr.role \in Privileged
    \/ usr.role = "team_lead" /\ usr.team = team

CentralOffers(d, usr, u) == CentralLists(d, usr, u) /\ CentralCanEdit(usr, u.team)

----------------------------------------------------------------------------
(* Final BOM portal *)

\* a listing of the project's uploads, final or not
FinalListsAll(d, usr, u) ==
    /\ "Final BOM" \in TabsOf(usr.role)
    /\ \E p \in Range(d.projects) : u.project_id = p.id

FinalLists(d, usr, u) ==
    /\ "Final BOM" \in TabsOf(usr.role)
    /\ \E p \in Range(d.projects) : u.project_id = p.id
    /\ u.final

FinalCanEdit(usr) == usr.role \in Privileged

\* the upload gated like edit and remove
FinalCanUploadPrivileged(usr) == usr.role \in Privileged

FinalCanUpload(usr) == usr.role = "project_lead"

FinalOffers(d, usr, u) == FinalLists(d, usr, u) /\ FinalCanEdit(usr)

\* os.remove(file_path) raises when the file is not there
final_remove_raises(b, u) == u.filename \notin b

final_remove_blobs(b, u, steps) ==
    IF steps >= 1 THEN b \ {u.filename} ELSE b

final_remove_doc(d, b, u, steps) ==
    IF final_remove_raises(b, u) \/ steps < FinalRemoveSteps THEN d
    ELSE [d EXCEPT !.uploads = WithoutId(@, u.id)]

\* d2 = load_data(); uu["final"] = True for the records with this id; save_data(d2)
final_flag_doc(d2, upload_id) ==
    LET ups == d2.uploads
    IN  [d2 EXCEPT !.uploads =
            [i \in 1..Len(ups) |->
                IF ups[i].id = upload_id THEN [ups[i] EXCEPT !.final = TRUE] ELSE ups[i]]]

----------------------------------------------------------------------------
(* Initial state: the seeded document, an empty upload directory, nobody   *)
(* logged in.                                                              *)

Init ==
    /\ doc = [ users      |-> SeedUsers,
               projects   |-> SeedProjects,
               uploads    |-> <<>>,
               messages   |-> <<>>,
               dashboards |-> <<>> ]
    /\ blobs = {}
    /\ session = <<>>
    /\ nextKey = 1
    /\ clock = 0
    /\ interrupted = FALSE
    /\ last = [op |-> "none", id |-> 0, res |-> "ok"]
    /\ removedIds = {}
    /\ creation = <<>>
    /\ callers = [c \in Callers |-> IdleCaller]

----------------------------------------------------------------------------
(* Login and logout *)

\* the user the Login button puts in st.session_state, <<>> when it puts none
login_user(username, role_choice, pin) ==
    LET found == find_user(Strip(username), role_choice)
    IN  IF found # <<>> /\ Strip(pin) = found[1].pin THEN found ELSE <<>>

Login ==
    \E name \in TypedNames, role \in Roles, pin \in TypedPins :
        /\ ~LoggedIn
        /\ session' = IF login_user(name, role, pin) # <<>>
                       THEN login_user(name, role, pin) ELSE session
        /\ UNCHANGED <<callers, doc, blobs, nextKey, clock, interrupted, last, removedIds, creation>>

Logout ==
    /\ LoggedIn
    /\ session' = <<>>
    /\ UNCHANGED <<callers, doc, blobs, nextKey, clock, interrupted, last, removedIds, creation>>

----------------------------------------------------------------------------
(* Portal handlers *)

PersonalSaveUpload ==
    /\ LoggedIn
    /\ nextKey <= MaxPortalKeys
    /\ "Personal" \in TabsOf(user.role)
    /\ \E proj \in Range(TeamProjects(load_data, user)) :
       \E sel_team \in Range(proj.teams), file \in PortalFiles, steps \in 1..AddSteps :
           DoAdd("add", user.role, proj.id, ProjectDisplay(load_data, proj.id),
                 sel_team, user.name, file, FALSE, steps)

PersonalReplace ==
    /\ LoggedIn
    /\ nextKey <= MaxPortalKeys
    /\ \E u \in Range(load_data.uploads), file \in PortalFiles, steps \in 1..ReplaceSteps :
           /\ PersonalOffers(load_data, user, u)
           /\ DoReplace("replace", u.id, file, user.name, steps)

PersonalRemove ==
    /\ LoggedIn
    /\ \E u \in Range(load_data.uploads), steps \in 1..RemoveSteps :
           /\ PersonalOffers(load_data, user, u)
           /\ DoRemove("remove", u.id, steps)

CentralReplace ==
    /\ LoggedIn
    /\ nextKey <= MaxPortalKeys
    /\ \E u \in Range(load_data.uploads), file \in PortalFiles, steps \in 1..ReplaceSteps :
           /\ CentralOffers(load_data, user, u)
           /\ DoReplace("replace", u.id, file, user.name, steps)

CentralRemove ==
    /\ LoggedIn
    /\ \E u \in Range(load_data.uploads), steps \in 1..RemoveSteps :
           /\ CentralOffers(load_data, user, u)
           /\ DoRemove("remove", u.id, steps)

AnalysisUpload ==
    /\ LoggedIn
    /\ nextKey <= MaxPortalKeys
    /\ "Analysis" \in TabsOf(user.role)
    /\ \E proj \in Range(CentralProjects(load_data, user)) :
       \E sel_team \in Range(proj.teams), file \in PortalFiles, steps \in 1..AddSteps :
           DoAdd("add", user.role, proj.id, ProjectDisplay(load_data, proj.id),
                 sel_team, user.name, file, FALSE, steps)

FinalUpload ==
    /\ LoggedIn
    /\ nextKey <= MaxPortalKeys
    /\ "Final BOM" \in TabsOf(user.role)
    /\ FinalCanUpload(user)
    /\ \E proj \in Range(load_data.projects), file \in PortalFiles, steps \in 1..AddSteps :
           DoAdd("add", user.role, proj.id, ProjectDisplay(load_data, proj.id),
                 IF Falsy(user.team) THEN "" ELSE user.team, user.name, file, TRUE, steps)

FinalReplace ==
    /\ LoggedIn
    /\ \E u \in Range(load_data.uploads), file \in PortalFiles, steps \in 1..FinalReplaceSteps :
           LET d == load_data
               replaced == replace_upload_doc(d, u.id, file, user.name, nextKey, clock, steps)
           IN  /\ FinalOffers(d, user, u)
               /\ nextKey <= MaxPortalKeys
               /\ blobs' = replace_upload_blobs(blobs, d, u.id, file, nextKey, steps)
               /\ doc' = IF steps >= FinalReplaceSteps
                         THEN final_flag_doc(replaced, u.id) ELSE replaced
               /\ nextKey' = nextKey + 1
               /\ clock' = clock + 1
               /\ Ran("final_replace", u.id, "ok", steps >= FinalReplaceSteps)
               /\ UNCHANGED <<callers, session, removedIds, creation>>

FinalRemove ==
    /\ LoggedIn
    /\ \E u \in Range(load_data.uploads), steps \in 1..FinalRemoveSteps :
           LET d == load_data
               raises == final_remove_raises(blobs, u)
           IN  /\ FinalOffers(d, user, u)
               /\ blobs' = final_remove_blobs(blobs, u, steps)
               /\ doc' = final_remove_doc(d, blobs, u, steps)
               /\ removedIds' = IF ~raises /\ steps >= FinalRemoveSteps
                                THEN removedIds \cup {u.id} ELSE removedIds
               /\ creation' = Created(creation, doc')
               /\ Ran("final_remove", u.id, IF raises THEN "error" ELSE "ok",
                      raises \/ steps >= FinalRemoveSteps)
               /\ UNCHANGED <<callers, session, nextKey, clock>>

Next ==
    \/ Login
    \/ Logout
    \/ PersonalSaveUpload
    \/ PersonalReplace
    \/ PersonalRemove
    \/ CentralReplace
    \/ CentralRemove
    \/ AnalysisUpload
    \/ FinalUpload
    \/ FinalReplace
    \/ FinalRemove

Spec == Init /\ [][Next]_vars

----------------------------------------------------------------------------
(* The upload registry called directly, with any arguments *)

AddRequests ==
    { [project_id |-> 10, team |-> "Design",  uploaded_by |-> "ann", final |-> FALSE],
      [project_id |-> 20, team |-> "Tooling", uploaded_by |-> "bob", final |-> TRUE] }

CallerNames == {"ann", "dan"}

UploadIds == 1..MaxKeys

AddUpload ==
    /\ nextKey <= MaxKeys
    /\ \E req \in AddRequests, file \in Files, steps \in 1..AddSteps :
        DoAdd("add", "none", req.project_id, ProjectDisplay(load_data, req.project_id),
              req.team, req.uploaded_by, file, req.final, steps)

ReplaceUpload ==
    /\ nextKey <= MaxKeys
    /\ \E upload_id \in UploadIds, file \in Files, by \in CallerNames,
       steps \in 1..ReplaceSteps :
        DoReplace("replace", upload_id, file, by, steps)

RemoveUpload ==
    \E upload_id \in UploadIds, steps \in 1..RemoveSteps :
        DoRemove("remove", upload_id, steps)

NextRegistry ==
    \/ AddUpload
    \/ ReplaceUpload
    \/ RemoveUpload

SpecRegistry == Init /\ [][NextRegistry]_vars

----------------------------------------------------------------------------
(* Messages, dashboards and accounts: save_message, save_dashboard, the    *)
(* Assigning and Admin portals.                                            *)

MaxStoreOps == 2     \* changes made to the document in a run of the console

\* a document in which one name holds two roles, each with its own record
AccountUsers ==
    << [id |-> 1, name |-> "ann", role |-> "member",     team |-> "Design",
        pin |-> "1111", project |-> NoneStr, roles |-> <<>>],
       [id |-> 3, name |-> "ann", role |-> "team_lead",  team |-> "Design",
        pin |-> "2222", project |-> NoneStr, roles |-> <<>>],
       [id |-> 5, name |-> "eve", role |-> "admin",      team |-> NoneStr,
        pin |-> "1111", project |-> NoneStr, roles |-> <<>>],
       [id |-> 6, name |-> "sam", role |-> "superadmin", team |-> NoneStr,
        pin |-> "1111", project |-> NoneStr, roles |-> <<>>] >>

AccountProjects ==
    << [id |-> 10, name |-> "Orbiter", teams |-> <<"Design">>] >>

\* what is typed or picked in the forms
MessageTexts == {"hi", " "}
MessageRecipients == {"All"}
DashboardNames == {""}
AssignRoles == {"member"}
AssignTeams == {"Tooling"}
AssignProjects == {"Project 1"}
AssignPins == {"", "2222"}

get_uploads_for_project(project_id) ==
    SelectSeq(load_data.uploads, LAMBDA u : u.project_id = project_id)

\* a save_message that puts the note first
save_message_prepends(d, frm, to, project, team, text, ts) ==
    [d EXCEPT !.messages =
        << [from |-> frm, to |-> to, project |-> project, team |-> team,
            text |-> text, ts |-> ts] >> \o @]

save_message(d, frm, to, project, team, text, ts) ==
    [d EXCEPT !.messages =
        Append(@, [from |-> frm, to |-> to, project |-> project, team |-> team,
                   text |-> text, ts |-> ts])]

save_dashboard(d, cfg) == [d EXCEPT !.dashboards = Append(@, cfg)]

\* Assign / Update applied to one record with the selected name
assign_user(u, new_role, new_team, new_project, new_pin) ==
    LET new_entry == [role |-> new_role, team |-> new_team, project |-> new_project,
                      pin |-> IF new_pin # "" THEN Strip(new_pin) ELSE u.pin]
        dup == \E i \in 1..Len(u.roles) :
                  /\ u.roles[i].role = new_role
                  /\ u.roles[i].team = new_team
                  /\ u.roles[i].project = new_project
    IN  [u EXCEPT !.roles = IF dup THEN @ ELSE Append(@, new_entry),
                  !.role = new_role,
                  !.team = new_team,
                  !.project = new_project,
                  !.pin = IF new_pin # "" THEN Strip(new_pin) ELSE @]

assign_doc(d, sel_name, new_role, new_team, new_project, new_pin) ==
    [d EXCEPT !.users =
        [i \in 1..Len(d.users) |->
            IF d.users[i].name = sel_name
            THEN assign_user(d.users[i], new_role, new_team, new_project, new_pin)
            ELSE d.users[i]]]

\* the Admin portal's Remove acts for whoever opens the portal
AdminCanRemoveAnyAdmin(usr) == usr.role \in {"admin", "superadmin"}

AdminCanRemove(usr) == usr.role = "superadmin"

remove_user_doc(d, user_id) ==
    [d EXCEPT !.users = SelectSeq(@, LAMBDA x : x.id # user_id)]

reset_pin_doc(d, user_id) ==
    [d EXCEPT !.users =
        [i \in 1..Len(d.users) |->
            IF d.users[i].id = user_id THEN [d.users[i] EXCEPT !.pin = "0000"]
            ELSE d.users[i]]]

\* records of the initial document that are gone or were changed
AccountChanges(d) ==
    Cardinality({i \in 1..Len(AccountUsers) : AccountUsers[i] \notin Range(d.users)})

StoreOps == AccountChanges(doc) + Len(doc.messages) + Len(doc.dashboards) + (nextKey - 1)

InitAccounts ==
    /\ doc = [ users      |-> AccountUsers,
               projects   |-> AccountProjects,
               uploads    |-> <<>>,
               messages   |-> <<>>,
               dashboards |-> <<>> ]
    /\ blobs = {}
    /\ session = <<>>
    /\ nextKey = 1
    /\ clock = 0
    /\ interrupted = FALSE
    /\ last = [op |-> "none", id |-> 0, res |-> "ok"]
    /\ removedIds = {}
    /\ creation = <<>>
    /\ callers = [c \in Callers |-> IdleCaller]

SendMessage ==
    /\ LoggedIn
    /\ "Messenger" \in TabsOf(user.role)
    /\ \E proj \in Range(CentralProjects(load_data, user)) :
       \E sel_team \in (IF user.role = "team_lead" THEN {user.team} ELSE Range(proj.teams)),
          recipient \in MessageRecipients, msg_text \in MessageTexts :
           LET d == load_data
               members == {u.name : u \in {x \in Range(d.users) : x.team = sel_team}}
               sent == Strip(msg_text) # ""
           IN  /\ recipient \in members \cup {"All"}
               /\ doc' = IF sent
                         THEN save_message(d, user.name,
                                           IF recipient # "All" THEN recipient ELSE NoneStr,
                                           ProjectDisplay(d, proj.id), sel_team,
                                           Strip(msg_text), clock)
                         ELSE d
               /\ clock' = IF sent THEN clock + 1 ELSE clock
               /\ Ran("message", 0, IF sent THEN "ok" ELSE "error", TRUE)
               /\ UNCHANGED <<callers, blobs, session, nextKey, removedIds, creation>>

SaveDashboard ==
    /\ LoggedIn
    /\ "Analysis" \in TabsOf(user.role)
    /\ \E proj \in Range(CentralProjects(load_data, user)) :
       \E sel_team \in Range(proj.teams), dash_name \in DashboardNames :
       \E u \in Range(load_data.uploads) :
           LET d == load_data
               cfg == [name |-> IF dash_name # "" THEN [text |-> dash_name]
                                ELSE [project |-> proj.name, team |-> sel_team, ts |-> clock],
                       project_id |-> proj.id,
                       team |-> sel_team,
                       file |-> u.filename,
                       chart |-> [type |-> "Histogram", x |-> "qty", y |-> NoneStr]]
           IN  /\ u.project_id = proj.id /\ u.team = sel_team
               /\ u.filename \in blobs
               /\ doc' = save_dashboard(d, cfg)
               /\ clock' = IF dash_name # "" THEN clock ELSE clock + 1
               /\ Ran("dashboard", 0, "ok", TRUE)
               /\ UNCHANGED <<callers, blobs, session, nextKey, removedIds, creation>>

AssignUpdate ==
    /\ LoggedIn
    /\ "Assigning" \in TabsOf(user.role)
    /\ \E sel \in Range(load_data.users) :
       \E new_role \in AssignRoles, new_team \in AssignTeams,
          new_project \in AssignProjects, new_pin \in AssignPins :
           /\ doc' = assign_doc(load_data, sel.name, new_role, new_team, new_project, new_pin)
           /\ Ran("assign", 0, "ok", TRUE)
           /\ UNCHANGED <<callers, blobs, session, nextKey, clock, removedIds, creation>>

\* the Remove button of the row of user_id
AdminRemoveClick(user_id) ==
    /\ doc' = IF AdminCanRemove(user) THEN remove_user_doc(load_data, user_id) ELSE doc
    /\ Ran("remove_user", user_id, IF AdminCanRemove(user) THEN "ok" ELSE "denied", TRUE)
    /\ UNCHANGED <<callers, blobs, session, nextKey, clock, removedIds, creation>>

AdminRemoveUser ==
    /\ LoggedIn
    /\ "Admin" \in TabsOf(user.role)
    /\ \E u \in Range(load_data.users) : AdminRemoveClick(u.id)

AdminResetPin ==
    /\ LoggedIn
    /\ "Admin" \in TabsOf(user.role)
    /\ \E u \in Range(load_data.users) :
           /\ doc' = reset_pin_doc(load_data, u.id)
           /\ Ran("reset_pin", u.id, "ok", TRUE)
           /\ UNCHANGED <<callers, blobs, session, nextKey, clock, removedIds, creation>>

NextAccounts ==
    \/ Login
    \/ Logout
    \/ StoreOps < MaxStoreOps /\ SendMessage
    \/ StoreOps < MaxStoreOps /\ SaveDashboard
    \/ StoreOps < MaxStoreOps /\ AssignUpdate
    \/ StoreOps < MaxStoreOps /\ AdminRemoveUser
    \/ StoreOps < MaxStoreOps /\ AdminResetPin
    \/ StoreOps < MaxStoreOps /\ PersonalSaveUpload
    \/ StoreOps < MaxStoreOps /\ PersonalReplace
    \/ PersonalRemove

SpecAccounts == InitAccounts /\ [][NextAccounts]_vars

----------------------------------------------------------------------------
(* Two callers side by side: each of add_upload and save_message is a      *)
(* load_data, a change of the loaded document and a save_data, and nothing *)
(* keeps another caller from running in between.                           *)

MaxRounds == 2       \* times the two callers run side by side

RaceRequests ==
    { [op |-> "add", project_id |-> req.project_id, team |-> req.team,
       by |-> req.uploaded_by, file |-> file, final |-> req.final] :
          req \in AddRequests, file \in PortalFiles }
    \cup { [op |-> "message", project_id |-> 10, team |-> "Design",
            by |-> by, file |-> "", final |-> FALSE] : by \in CallerNames }

\* a store that writes the loaded document over the records saved meanwhile but keeps those
save_data_keeping(d) ==
    [d EXCEPT !.uploads = @ \o SelectSeq(doc.uploads, LAMBDA u : u \notin Range(d.uploads)),
              !.messages = @ \o SelectSeq(doc.messages, LAMBDA m : m \notin Range(d.messages))]

\* the content of DATA_FILE after save_data(d)
save_data(d) == d

\* the document the caller passes to save_data
RaceChanged(c) ==
    LET me == callers[c]
        rq == me.req
    IN  IF rq.op = "add"
        THEN add_upload_doc(me.d,
                 add_upload_entry(me.d, rq.project_id, ProjectDisplay(me.d, rq.project_id),
                                  rq.team, rq.by, rq.file, rq.final, me.key, clock),
                 AddSteps)
        ELSE save_message(me.d, rq.by, NoneStr, ProjectDisplay(me.d, rq.project_id),
                          rq.team, "hi", clock)

\* d = load_data()
RaceLoad(c) ==
    /\ callers[c].pc = "idle"
    /\ clock < 2 * MaxRounds
    /\ \E rq \in RaceRequests :
          callers' = [callers EXCEPT ![c] = [IdleCaller EXCEPT !.pc = "loaded", !.req = rq,
                                                               !.d = load_data]]
    /\ UNCHANGED <<doc, blobs, session, nextKey, clock, interrupted, last, removedIds,
                   creation>>

\* add_upload writes the blob under a fresh key
RaceWrite(c) ==
    /\ callers[c].pc = "loaded"
    /\ callers[c].req.op = "add"
    /\ blobs' = blobs \cup {StorageKey(nextKey, callers[c].req.file)}
    /\ nextKey' = nextKey + 1
    /\ callers' = [callers EXCEPT ![c].pc = "written", ![c].key = nextKey]
    /\ UNCHANGED <<doc, session, clock, interrupted, last, removedIds, creation>>

\* the change is made to the loaded document, which save_data writes out
RaceSave(c) ==
    /\ \/ callers[c].pc = "written"
       \/ callers[c].pc = "loaded" /\ callers[c].req.op = "message"
    /\ doc' = save_data(RaceChanged(c))
    /\ clock' = clock + 1
    /\ callers' = [callers EXCEPT
          ![c].pc = "saved",
          ![c].d = RaceChanged(c),
          ![c].rank = 1 + Cardinality({o \in Callers : callers[o].pc = "saved"}),
          ![c].raced = \E o \in Callers \ {c} : callers[o].pc \in {"loaded", "written"}]
    /\ UNCHANGED <<blobs, session, nextKey, interrupted, last, removedIds, creation>>

\* both callers have returned
RaceReturn ==
    /\ \A c \in Callers : callers[c].pc = "saved"
    /\ callers' = [c \in Callers |-> IdleCaller]
    /\ UNCHANGED <<doc, blobs, session, nextKey, clock, interrupted, last, removedIds,
                   creation>>

NextRace ==
    \/ \E c \in Callers : RaceLoad(c)
    \/ \E c \in Callers : RaceWrite(c)
    \/ \E c \in Callers : RaceSave(c)
    \/ RaceReturn

SpecRace == Init /\ [][NextRace]_vars

----------------------------------------------------------------------------
(* Claims about the upload registry, checked under SpecRegistry *)

Uploads == doc.uploads

\* C1: as long as no create, replace or remove was cut short, every upload
\* record of the persisted document has a filename that is a blob of the store.
C1_RecordsResolve ==
    ~interrupted => \A u \in Range(Uploads) : u.filename \in blobs

\* a replace has just returned, after an earlier remove, and records survive
C1_Witness ==
    /\ ~interrupted
    /\ last.op = "replace" /\ last.res = "ok"
    /\ removedIds # {}
    /\ Uploads # <<>>

UniqueIds(ups) == \A i, j \in 1..Len(ups) : ups[i].id = ups[j].id => i = j

\* k is max(ids of ups, default 0) + 1
IsMaxPlusOne(ups, k) ==
    \/ ups = <<>> /\ k = 1
    \/ /\ \E i \in 1..Len(ups) : ups[i].id = k - 1
       /\ \A i \in 1..Len(ups) : ups[i].id <= k - 1

\* a step that appends a record (only a create does)
C3_Create == Len(Uploads') = Len(Uploads) + 1

\* C3: no two upload records share an id; each create assigns
\* max(existing ids, default 0) + 1; and a create that directly follows a
\* create gets a strictly larger id.
C3_UniqueIncreasingIds ==
    /\ [] UniqueIds(Uploads)
    /\ [][ C3_Create =>
              /\ Uploads' = Append(Uploads, Uploads'[Len(Uploads')])
              /\ IsMaxPlusOne(Uploads, Uploads'[Len(Uploads')].id)
              /\ last'.id = Uploads'[Len(Uploads')].id
              /\ (last.op = "add" /\ last.res = "ok" => last'.id > last.id) ]_vars

\* three creates have returned
C3_Witness ==
    /\ last.op = "add" /\ last.res = "ok" /\ last.id = 3
    /\ Len(Uploads) = 3

\* what replace_upload(upload_id, file, replaced_by) must have done to the document
C4_Post(upload_id, file, replaced_by) ==
    LET i == FirstIndex(Uploads, upload_id)
        old == Uploads[i]
        new == Uploads'[i]
    IN  /\ Len(Uploads') = Len(Uploads)
        /\ new.id = old.id
        /\ new.final = old.final
        /\ new.project_id = old.project_id
        /\ new.project_name = old.project_name
        /\ new.team = old.team
        /\ new.filename \notin blobs
        /\ new.filename \in blobs'
        /\ new.filename # old.filename
        /\ new.filename.name = file
        /\ \A j \in 1..Len(Uploads) : j # i => Uploads[j].filename # new.filename
        /\ new.original_name = file
        /\ new.uploaded_by = replaced_by
        /\ new.ts = clock
        /\ \A j \in 1..Len(Uploads) : j # i => Uploads'[j] = Uploads[j]

\* C4: a replace of an existing upload that returns keeps the record's id,
\* final flag, project and team, gives it a storage key no blob or record had,
\* the new file's name, replaced_by as uploader and the current time, and leaves
\* every other record as it was.
C4_ReplaceFrame ==
    [][ \A upload_id \in UploadIds, file \in Files, by \in CallerNames :
           (HasId(Uploads, upload_id) /\ DoReplace("replace", upload_id, file, by, ReplaceSteps))
               => C4_Post(upload_id, file, by) ]_vars

\* a final upload, next to another record, was replaced by somebody who creates none
C4_Witness ==
    /\ last.op = "replace" /\ last.res = "ok"
    /\ Len(Uploads) >= 2
    /\ \E u \in Range(Uploads) :
          u.id = last.id /\ u.final /\ u.uploaded_by = "dan" /\ u.original_name = "b.xlsx"

\* C5: a replace of an id the document does not hold reports not-found and
\* changes neither the document nor the set of blobs.
C5_ReplaceAbsent ==
    [][ \A upload_id \in UploadIds, file \in Files, by \in CallerNames,
           steps \in 1..ReplaceSteps :
           (~HasId(Uploads, upload_id) /\ DoReplace("replace", upload_id, file, by, steps))
               => /\ doc' = doc
                  /\ blobs' = blobs
                  /\ last'.res = "not_found" ]_vars

\* a replace of an absent id has just returned, in a store that holds uploads
C5_Witness ==
    /\ last.op = "replace" /\ last.res = "not_found"
    /\ Uploads # <<>>
    /\ blobs # {}

----------------------------------------------------------------------------
(* Claims about the portals, checked under Spec *)

IsUploader(usr, u) == usr.name = u.uploaded_by

Offered(d, usr, u) ==
    PersonalOffers(d, usr, u) \/ CentralOffers(d, usr, u) \/ FinalOffers(d, usr, u)

\* C6 as stated: a remove that ran to its end, by remove_upload or by the
\* Final BOM portal's Remove, leaves no record with the removed id, whether or
\* not the blob was still there.
C6_RemoveDropsRecord ==
    (last.op \in {"remove", "final_remove"} /\ last.res # "interrupted")
        => ~HasId(Uploads, last.id)

Permitted(usr, u) ==
    \/ IsUploader(usr, u)
    \/ usr.role = "team_lead" /\ usr.team = u.team
    \/ usr.role \in Privileged

\* C8 as stated: whoever the rule permits is offered replace/remove by every
\* portal that lists the upload for them.
C8_PermittedEverywhere ==
    LoggedIn => \A u \in Range(Uploads) :
        Permitted(user, u) =>
            /\ PersonalLists(doc, user, u) => PersonalOffers(doc, user, u)
            /\ CentralLists(doc, user, u) => CentralOffers(doc, user, u)
            /\ FinalLists(doc, user, u) => FinalOffers(doc, user, u)

\* C8 amended: the Personal portal offers replace/remove on every upload it
\* lists (the actor's own); the Central portal offers them on a listed upload
\* exactly to the team_lead of the upload's team and to project_lead, admin and
\* superadmin, so not to an uploader who is none of these; the Final BOM portal
\* offers them on every upload it lists.
C8_PermittedPerPortal ==
    LoggedIn => \A u \in Range(Uploads) :
        /\ PersonalLists(doc, user, u) => PersonalOffers(doc, user, u)
        /\ CentralLists(doc, user, u) =>
              ( CentralOffers(doc, user, u)
                  <=> \/ user.role = "team_lead" /\ user.team = u.team
                      \/ user.role \in Privileged )
        /\ FinalLists(doc, user, u) => FinalOffers(doc, user, u)

\* a member sees their own upload in both portals: offered in Personal, not in Central
C8_Witness ==
    /\ LoggedIn
    /\ user.role = "member"
    /\ \E u \in Range(Uploads) :
          /\ IsUploader(user, u)
          /\ PersonalOffers(doc, user, u)
          /\ CentralLists(doc, user, u)
          /\ ~CentralOffers(doc, user, u)

\* C9: every upload record with final = true was created with final = true by a
\* session whose role was project_lead.
C9_FinalOnlyByProjectLead ==
    \A u \in Range(Uploads) :
        u.final => /\ u.id \in DOMAIN creation
                   /\ creation[u.id].final
                   /\ creation[u.id].role = "project_lead"

\* a final upload that an admin or superadmin has since replaced
C9_Witness ==
    \E u \in Range(Uploads) :
        /\ u.final
        /\ u.uploaded_by \in {"eve", "sam"}
        /\ creation[u.id].role = "project_lead"

\* C10 as stated: whoever is logged in can open the Final BOM portal, with its
\* listing of a project's final uploads.
C10_EveryoneViewsFinal ==
    LoggedIn => "Final BOM" \in TabsOf(user.role)

\* a step that creates, with the default final = false, the first upload of an
\* empty store leaves it as the one record listed for its project, uploaded by
\* the session's user and not final
C14_CreateListed ==
    (LoggedIn /\ Uploads = <<>> /\ Len(Uploads') = 1 /\ ~creation'[Uploads'[1].id].final)
        => LET u == Uploads'[1]
           IN  /\ \E p \in Range(doc.projects) : p.id = u.project_id
               /\ \A p \in Range(doc.projects) :
                     get_uploads_for_project(p.id)' =
                         IF p.id = u.project_id THEN <<u>> ELSE <<>>
               /\ u.uploaded_by = user.name
               /\ u.final = FALSE

\* C14 as stated: the created upload is the one record listed for its project,
\* with its uploader and final = false, and a project_lead is then offered the
\* Final BOM portal's replace-and-flag action on it.
C14_CreateThenMarkFinal ==
    /\ [][ C14_CreateListed ]_vars
    /\ [] ( (LoggedIn /\ user.role = "project_lead")
               => \A u \in Range(Uploads) : ~u.final => FinalOffers(doc, user, u) )

\* C14 amended: the created upload is the one record listed for its project,
\* with its uploader and final = false; the Final BOM portal neither lists it
\* nor offers its replace-and-flag action on it, to a project_lead or anybody
\* else, and no step turns the final flag of an upload from false to true.
C14_CreateListedNeverMarkedFinal ==
    /\ [][ C14_CreateListed ]_vars
    /\ [] ( LoggedIn => \A u \in Range(Uploads) :
                ~u.final => (~FinalLists(doc, user, u) /\ ~FinalOffers(doc, user, u)) )
    /\ [][ \A i \in 1..Len(Uploads) :
              (~Uploads[i].final /\ HasId(Uploads', Uploads[i].id))
                  => ~Uploads'[FirstIndex(Uploads', Uploads[i].id)].final ]_vars

\* a project_lead looks at a project with the upload created first, not final
\* and not offered, and a Final BOM, which is offered
C14_Witness ==
    /\ LoggedIn /\ user.role = "project_lead"
    /\ \E u, f \in Range(Uploads) :
          /\ u.id = 1 /\ ~u.final /\ u.uploaded_by # user.name
          /\ ~FinalOffers(doc, user, u)
          /\ f.final /\ FinalOffers(doc, user, f)
          /\ u.project_id = f.project_id
          /\ Len(get_uploads_for_project(u.project_id)) = 2

----------------------------------------------------------------------------
(* Claims about accounts and messages, checked under SpecAccounts *)

UserIds(d) == {d.users[i].id : i \in 1..Len(d.users)}

\* C11: a step that takes a user record out of the users collection is made by
\* a session whose role is superadmin; the Admin portal's Remove clicked by an
\* admin is denied and leaves the document as it was; clicked by a superadmin
\* it removes the records with the selected id, keeps every other user record
\* and every other collection.
C11_RemoveUserOnlySuperadmin ==
    [][ /\ (UserIds(doc) \ UserIds(doc') # {})
              => (LoggedIn /\ user.role = "superadmin")
        /\ \A user_id \in UserIds(doc) :
              (LoggedIn /\ "Admin" \in TabsOf(user.role) /\ AdminRemoveClick(user_id))
                  => /\ user.role = "admin"
                          => (doc' = doc /\ last'.res = "denied")
                     /\ user.role = "superadmin"
                          => /\ \A r \in Range(doc.users) :
                                    r \in Range(doc'.users) <=> r.id # user_id
                             /\ Range(doc'.users) \subseteq Range(doc.users)
                             /\ Len(doc'.users) = Len(doc.users) - 1
                             /\ [doc' EXCEPT !.users = doc.users] = doc ]_vars

\* a superadmin has removed a user, and an admin's Remove was then denied
C11_Witness ==
    /\ Len(doc.users) < Len(AccountUsers)
    /\ last.op = "remove_user" /\ last.res = "denied"
    /\ LoggedIn /\ user.role = "admin"

\* C12 as stated: a login attempt establishes a session exactly when some user
\* record of the document has the supplied name (ignoring case, surrounding
\* blanks dropped), the supplied role and the supplied PIN (surrounding blanks
\* dropped).
C12_LoginIffMatch ==
    \A name \in TypedNames, role \in Roles, pin \in TypedPins :
        (login_user(name, role, pin) # <<>>)
            <=> \E r \in Range(doc.users) :
                    /\ Lower(r.name) = Lower(Strip(name))
                    /\ r.role = role
                    /\ r.pin = Strip(pin)

IsPrefix(s, t) == Len(s) <= Len(t) /\ SubSeq(t, 1, Len(s)) = s

----------------------------------------------------------------------------
(* Claims about callers side by side, checked under SpecRace *)

\* what the caller added to the document it saved
RaceRecord(c) ==
    IF callers[c].req.op = "add"
    THEN callers[c].d.uploads[Len(callers[c].d.uploads)]
    ELSE callers[c].d.messages[Len(callers[c].d.messages)]

\* C15: when both callers have loaded before either saves, the document after
\* both saves is the later saver's: what it loaded plus its own change; the
\* record or message of the earlier saver is not in it, and the blob of an
\* earlier saver's create is in the store with no record naming it.
C15_LastWriterWins ==
    \A e, l \in Callers :
        ( /\ callers[e].pc = "saved" /\ callers[e].rank = 1 /\ callers[e].raced
          /\ callers[l].pc = "saved" /\ callers[l].rank = 2 )
        => /\ doc = callers[l].d
           /\ RaceRecord(e) \notin Range(doc.uploads) \cup Range(doc.messages)
           /\ RaceRecord(l) \in Range(doc.uploads) \cup Range(doc.messages)
           /\ Len(doc.uploads) + Len(doc.messages)
                  = Len(callers[e].d.uploads) + Len(callers[e].d.messages)
           /\ callers[e].req.op = "add"
                  => /\ StorageKey(callers[e].key, callers[e].req.file) \in blobs
                     /\ \A u \in Range(doc.uploads) :
                            u.filename # StorageKey(callers[e].key, callers[e].req.file)

\* two creates ran side by side on a document that holds uploads and messages:
\* both were given the same id, one record is in the document, both blobs are
\* in the store
C15_Witness ==
    \E e, l \in Callers :
        /\ callers[e].pc = "saved" /\ callers[e].rank = 1 /\ callers[e].raced
        /\ callers[l].pc = "saved" /\ callers[l].rank = 2
        /\ callers[e].req.op = "add" /\ callers[l].req.op = "add"
        /\ RaceRecord(e).id = RaceRecord(l).id
        /\ Len(doc.uploads) >= 2 /\ Len(doc.messages) >= 1
        /\ StorageKey(callers[e].key, callers[e].req.file) \in blobs
        /\ StorageKey(callers[l].key, callers[l].req.file) \in blobs

----------------------------------------------------------------------------
(* Claims about the order of the effects on disk, checked under Spec *)

\* the blobs that no upload record of the document names
Orphans == blobs \ {u.filename : u \in Range(Uploads)}

====
